---- MODULE Spec2Model ----
(***************************************************************************)
(* Generic Webhook action (sgnl-actions/generic-webhook).                  *)
(*                                                                         *)
(* The action exposes three handlers, invoke, error and halt.  invoke      *)
(* resolves a URL, headers, an Authorization header, a body and the        *)
(* accepted status codes from params and context, issues the request and   *)
(* classifies the response.  Three builds of the action are in the tree:   *)
(*   "strict"  the bundle with the auth utilities inlined, which throws    *)
(*             on a status that is not a success;                          *)
(*   "lenient" src/script.mjs (current), which always returns an envelope; *)
(*   "legacy"  the older src/script.mjs and dist/index.js, with its own    *)
(*             URL composition and bearer-only authentication.             *)
(*                                                                         *)
(* JavaScript values are tagged records, strings are TLA+ strings, and a   *)
(* JavaScript object is the sequence of its <<key, value>> pairs in        *)
(* insertion order.                                                        *)
(***************************************************************************)
EXTENDS Integers, Sequences, FiniteSets, TLC

VARIABLES
    variant,    \* the build of the action that is deployed
    pc,         \* where the current invocation is
    params,     \* the params invoke was called with, as the caller supplied them
    context,    \* the context invoke was called with
    callerObj,  \* the caller's structured requestHeaders object, as it is now
    loc,        \* the locals of invoke
    requests,   \* the calls of fetch that reached the network, in order
    response,   \* the primary response: status, how the read went, body text
    outcome,    \* what invoke returned or threw
    reply,      \* what the last error or halt handler call returned or threw
    now,        \* logical time since invoke was called
    tokenResponse,  \* the answer of the token endpoint in this invocation, and
                    \* what getClientCredentialsToken made of it
    earlier     \* what the earlier invocation of a pair left behind: the
                \* caller's requestHeaders object as it was supplied and as it
                \* is now, and the access token that invocation obtained

vars == <<variant, pc, params, context, callerObj, loc, requests, response,
          outcome, reply, now, tokenResponse, earlier>>

-----------------------------------------------------------------------------
(* Bounds of the model *)

\* Largest number of '/' at the end of a base address and at the start of an
\* addressSuffix.
MaxSlashes == 2

-----------------------------------------------------------------------------
(* JavaScript values *)

Undef == [t |-> "undefined"]
Null == [t |-> "null"]
Str(s) == [t |-> "string", v |-> s]
Num(n) == [t |-> "number", v |-> n]
Bool(b) == [t |-> "boolean", v |-> b]
\* An array: its elements, and the named properties set on it
Arr(seq) == [t |-> "array", v |-> seq, p |-> <<>>]
Obj(pairs) == [t |-> "object", v |-> pairs]

IsStr(x) == x.t = "string"
IsObj(x) == x.t = "object"
IsArr(x) == x.t = "array"

\* ToBoolean: what `if (x)`, `!x`, `a || b` and `a && b` test.
Truthy(x) ==
    CASE x.t = "undefined" -> FALSE
      [] x.t = "null" -> FALSE
      [] x.t = "string" -> x.v # ""
      [] x.t = "number" -> x.v # 0
      [] x.t = "boolean" -> x.v
      [] OTHER -> TRUE

\* a || b
Or(a, b) == IF Truthy(a) THEN a ELSE b

-----------------------------------------------------------------------------
(* Strings *)

\* String.prototype.includes
Includes(s, t) ==
    \E i \in 0..(Len(s) - Len(t)) : SubSeq(s, i + 1, i + Len(t)) = t

\* String.prototype.startsWith / endsWith
StartsWith(s, p) == Len(p) <= Len(s) /\ SubSeq(s, 1, Len(p)) = p
EndsWith(s, p) == Len(p) <= Len(s) /\ SubSeq(s, Len(s) - Len(p) + 1, Len(s)) = p

LowerAlpha == "abcdefghijklmnopqrstuvwxyz"
UpperAlpha == "ABCDEFGHIJKLMNOPQRSTUVWXYZ"

UpperChar(c) ==
    IF \E i \in 1..Len(LowerAlpha) : SubSeq(LowerAlpha, i, i) = c
    THEN LET i == CHOOSE j \in 1..Len(LowerAlpha) : SubSeq(LowerAlpha, j, j) = c
         IN SubSeq(UpperAlpha, i, i)
    ELSE c

LowerChar(c) ==
    IF \E i \in 1..Len(UpperAlpha) : SubSeq(UpperAlpha, i, i) = c
    THEN LET i == CHOOSE j \in 1..Len(UpperAlpha) : SubSeq(UpperAlpha, j, j) = c
         IN SubSeq(LowerAlpha, i, i)
    ELSE c

RECURSIVE ToUpperCase(_)
\* String.prototype.toUpperCase
ToUpperCase(s) ==
    IF s = "" THEN "" ELSE UpperChar(SubSeq(s, 1, 1)) \o ToUpperCase(Tail(s))

RECURSIVE ToLowerCase(_)
\* String.prototype.toLowerCase (used only to state case-insensitive claims)
ToLowerCase(s) ==
    IF s = "" THEN "" ELSE LowerChar(SubSeq(s, 1, 1)) \o ToLowerCase(Tail(s))

Digits == "0123456789"

RECURSIVE NumToStr(_)
\* Number to string conversion in a template literal (non-negative integers)
NumToStr(n) ==
    IF n < 10 THEN SubSeq(Digits, n + 1, n + 1)
    ELSE NumToStr(n \div 10) \o SubSeq(Digits, (n % 10) + 1, (n % 10) + 1)

RECURSIVE Slashes(_)
Slashes(k) == IF k = 0 THEN "" ELSE "/" \o Slashes(k - 1)

-----------------------------------------------------------------------------
(* Objects: sequences of <<key, value>> pairs *)

HasKey(o, k) == \E i \in 1..Len(o) : o[i][1] = k

\* o[k]: undefined for a key the object does not have
Get(o, k) ==
    IF HasKey(o, k) THEN o[CHOOSE i \in 1..Len(o) : o[i][1] = k][2] ELSE Undef

\* o[k] = v: an existing key keeps its place, a new key goes last
Set(o, k, v) ==
    IF HasKey(o, k)
    THEN [i \in 1..Len(o) |-> IF o[i][1] = k THEN <<k, v>> ELSE o[i]]
    ELSE Append(o, <<k, v>>)

Keys(o) == {o[i][1] : i \in 1..Len(o)}

\* Reading a property of any value.  Only null and undefined throw.
CanReadProps(x) == x.t \notin {"undefined", "null"}

\* Writing a property: all builds run in strict mode ('use strict' / ES
\* module), where creating a property on a primitive throws a TypeError.
CanWriteProps(x) == x.t \in {"object", "array"}

\* x[k]
Prop(x, k) ==
    CASE IsObj(x) -> Get(x.v, k)
      [] IsArr(x) -> Get(x.p, k)
      [] OTHER -> Undef

\* x[k] = v on a value that takes properties
SetProp(x, k, v) ==
    IF IsArr(x) THEN [x EXCEPT !.p = Set(x.p, k, v)]
    ELSE [x EXCEPT !.v = Set(x.v, k, v)]

-----------------------------------------------------------------------------
(* JSON *)

RECURSIVE JSONStringify(_)
RECURSIVE JoinElems(_)
RECURSIVE JoinPairs(_)

JoinElems(seq) ==
    IF seq = <<>> THEN ""
    ELSE JSONStringify(Head(seq))
         \o (IF Len(seq) > 1 THEN "," ELSE "") \o JoinElems(Tail(seq))

JoinPairs(o) ==
    IF o = <<>> THEN ""
    ELSE "\"" \o Head(o)[1] \o "\":" \o JSONStringify(Head(o)[2])
         \o (IF Len(o) > 1 THEN "," ELSE "") \o JoinPairs(Tail(o))

\* JSON.stringify: compact, keys in insertion order.  The texts of the model
\* need no escaping.
JSONStringify(x) ==
    CASE x.t = "string" -> "\"" \o x.v \o "\""
      [] x.t = "number" -> NumToStr(x.v)
      [] x.t = "boolean" -> IF x.v THEN "true" ELSE "false"
      [] x.t = "null" -> "null"
      [] x.t = "array" -> "[" \o JoinElems(x.v) \o "]"
      [] x.t = "object" -> "{" \o JoinPairs(x.v) \o "}"

\* The header mappings of the model.  HdrAuthValue is a caller's own
\* credential.
HdrAuthValue == "Custom abc"
HeaderObjects ==
    { <<>>,
      << <<"Authorization", Str(HdrAuthValue)>> >>,
      << <<"authorization", Str(HdrAuthValue)>> >>,
      << <<"AUTHORIZATION", Str(HdrAuthValue)>> >>,
      << <<"Authorization", Str("")>> >>,
      << <<"Content-Type", Str("text/plain")>> >>,
      << <<"content-type", Str("text/plain")>> >>,
      << <<"CONTENT-TYPE", Str("text/plain")>> >>,
      << <<"User-Agent", Str("caller/1.0")>> >>,
      << <<"X-Custom-Header", Str("value")>> >> }

\* The accepted-status-code arrays of the model
CodeArrays == { <<>>, <<Num(404)>>, <<Num(404), Num(500)>> }

\* The JSON bodies of the token endpoint's responses
TokenObjects ==
    { << <<"access_token", Str("tok-1")>> >>,
      << <<"access_token", Str("tok-2")>> >>,
      << <<"error", Str("invalid_client")>> >>,
      << <<"error", Str("No authentication configured")>> >> }

\* The values whose JSON text the model's inputs use
JSONValues ==
    {Obj(o) : o \in HeaderObjects \cup TokenObjects}
    \cup {Arr(a) : a \in CodeArrays}
    \cup {Num(404), Num(0), Str("404"), Null, Bool(TRUE)}

\* Texts that are not JSON
NotJSON == {"not json", "{invalid", "ETIMEDOUT", "<html>Bad Gateway</html>"}

\* The message of the SyntaxError JSON.parse throws.  The wording is the
\* engine's: older V8 names the offending token and its position, newer V8 also
\* quotes the text.
EngineStyles == {"position", "quoted"}
SyntaxErrorMessage(text, style) ==
    IF style = "position"
    THEN "Unexpected token " \o SubSeq(text, 1, 1) \o " in JSON at position 0"
    ELSE "Unexpected token '" \o SubSeq(text, 1, 1) \o "', \"" \o text
         \o "\" is not valid JSON"

\* JSON.parse on the texts of the model: the inverse of JSON.stringify on
\* JSONValues, a SyntaxError on NotJSON.
JSONParses(text) == \E x \in JSONValues : JSONStringify(x) = text
JSONParse(text) == CHOOSE x \in JSONValues : JSONStringify(x) = text

-----------------------------------------------------------------------------
(* btoa *)

\* The printable ASCII characters: codes 32 to 95, and 97 to 126 (a TLA+
\* string cannot hold the grave accent, code 96)
PrintableLow ==
    " !\"#$%&'()*+,-./0123456789:;<=>?@ABCDEFGHIJKLMNOPQRSTUVWXYZ[\\]^_"
PrintableHigh == "abcdefghijklmnopqrstuvwxyz{|}~"

IndexIn(c, alphabet) ==
    CHOOSE i \in 1..Len(alphabet) : SubSeq(alphabet, i, i) = c

CharCode(c) ==
    IF Includes(PrintableLow, c) THEN 31 + IndexIn(c, PrintableLow)
    ELSE 96 + IndexIn(c, PrintableHigh)

B64Alpha == "ABCDEFGHIJKLMNOPQRSTUVWXYZabcdefghijklmnopqrstuvwxyz0123456789+/"
B64Char(n) == SubSeq(B64Alpha, n + 1, n + 1)

RECURSIVE Btoa(_)
\* btoa: base64 of the string's bytes, three bytes to four characters
Btoa(s) ==
    IF s = "" THEN ""
    ELSE LET n == Len(s)
             b1 == CharCode(SubSeq(s, 1, 1))
             b2 == IF n >= 2 THEN CharCode(SubSeq(s, 2, 2)) ELSE 0
             b3 == IF n >= 3 THEN CharCode(SubSeq(s, 3, 3)) ELSE 0
         IN B64Char(b1 \div 4)
            \o B64Char((b1 % 4) * 16 + (b2 \div 16))
            \o (IF n >= 2 THEN B64Char((b2 % 16) * 4 + (b3 \div 64)) ELSE "=")
            \o (IF n >= 3 THEN B64Char(b3 % 64) ELSE "=")
            \o (IF n > 3 THEN Btoa(SubSeq(s, 4, n)) ELSE "")

-----------------------------------------------------------------------------
(* Completions: a returned value or a thrown error.  An error is its      *)
(* message, a JavaScript value (undefined for an error without one).       *)

Return(x) == [threw |-> FALSE, value |-> x]
Throw(m) == [threw |-> TRUE, message |-> m]

-----------------------------------------------------------------------------
(* The auth utilities *)

SGNL_USER_AGENT == "SGNL-CAEP-Hub/2.0"

MsgMethodRequired == "method is required"
MsgNoURL ==
    "No URL specified. Provide address parameter or ADDRESS environment variable"
MsgNoURLLegacy ==
    "No URL specified. Provide either address parameter or address environment variable"
MsgSuffixWithoutBase ==
    "addressSuffix provided but no base address available. Provide either address parameter or ADDRESS environment variable"
MsgSuffixWithoutBaseLegacy ==
    "addressSuffix provided but no base address available. Provide either address parameter or address environment variable"
MsgNoAuth ==
    "No authentication configured. Provide one of: BEARER_AUTH_TOKEN, BASIC_USERNAME/BASIC_PASSWORD, OAUTH2_AUTHORIZATION_CODE_ACCESS_TOKEN, or OAUTH2_CLIENT_CREDENTIALS_*"
MsgMissingOAuth2Env ==
    "OAuth2 Client Credentials flow requires TOKEN_URL and CLIENT_ID in env"
MsgMissingOAuth2Config ==
    "OAuth2 Client Credentials flow requires tokenUrl, clientId, and clientSecret"
MsgNoAccessToken == "No access_token in OAuth2 response"

\* token.startsWith('Bearer ') ? token : `Bearer ${token}`
BearerOf(token) == IF StartsWith(token, "Bearer ") THEN token ELSE "Bearer " \o token

\* getBaseURL with the environment preferred to params.address
getBaseURL_EnvFirst(p, ctx) ==
    LET env == Or(ctx.environment, Obj(<<>>))
        address == Or(Prop(env, "ADDRESS"), p.address)
    IN IF ~Truthy(address) THEN Throw(Str(MsgNoURL))
       ELSE Return(IF EndsWith(address.v, "/")
                   THEN SubSeq(address.v, 1, Len(address.v) - 1)
                   ELSE address.v)

\* getBaseURL(params, context)
getBaseURL(p, ctx) ==
    LET env == Or(ctx.environment, Obj(<<>>))
        address == Or(p.address, Prop(env, "ADDRESS"))
    IN IF ~Truthy(address) THEN Throw(Str(MsgNoURL))
       ELSE Return(IF EndsWith(address.v, "/")
                   THEN SubSeq(address.v, 1, Len(address.v) - 1)
                   ELSE address.v)

\* A network request: what fetch was called with.  body is Undef when the
\* options carry none.
Request(kind, method, url, headers, body) ==
    [kind |-> kind, method |-> method, url |-> url, headers |-> headers,
     body |-> body]

RECURSIVE FormEncode(_)
\* URLSearchParams.toString() for names and values that need no escaping
FormEncode(pairs) ==
    IF pairs = <<>> THEN ""
    ELSE Head(pairs)[1] \o "=" \o Head(pairs)[2]
         \o (IF Len(pairs) > 1 THEN "&" ELSE "") \o FormEncode(Tail(pairs))

\* getClientCredentialsToken sending the Basic header whatever the authStyle
TokenRequest_AlwaysBasic(config) ==
    IF ~Truthy(config.tokenUrl) \/ ~Truthy(config.clientId)
       \/ ~Truthy(config.clientSecret)
    THEN Throw(Str(MsgMissingOAuth2Config))
    ELSE LET inParams == config.authStyle = Str("InParams")
             form == << <<"grant_type", "client_credentials">> >>
                     \o (IF Truthy(config.scope)
                         THEN << <<"scope", config.scope.v>> >> ELSE <<>>)
                     \o (IF Truthy(config.audience)
                         THEN << <<"audience", config.audience.v>> >> ELSE <<>>)
                     \o (IF inParams
                         THEN << <<"client_id", config.clientId.v>>,
                                 <<"client_secret", config.clientSecret.v>> >>
                         ELSE <<>>)
             hdrs == << <<"Content-Type", Str("application/x-www-form-urlencoded")>>,
                        <<"Accept", Str("application/json")>>,
                        <<"User-Agent", Str(SGNL_USER_AGENT)>>,
                        <<"Authorization",
                          Str("Basic " \o Btoa(config.clientId.v \o ":"
                                               \o config.clientSecret.v))>> >>
         IN Return(Request("token", "POST", config.tokenUrl.v, Obj(hdrs),
                           Str(FormEncode(form))))

\* getClientCredentialsToken(config), up to its fetch: the token request, or
\* the error thrown before it.
TokenRequest(config) ==
    IF ~Truthy(config.tokenUrl) \/ ~Truthy(config.clientId)
       \/ ~Truthy(config.clientSecret)
    THEN Throw(Str(MsgMissingOAuth2Config))
    ELSE LET inParams == config.authStyle = Str("InParams")
             form == << <<"grant_type", "client_credentials">> >>
                     \o (IF Truthy(config.scope)
                         THEN << <<"scope", config.scope.v>> >> ELSE <<>>)
                     \o (IF Truthy(config.audience)
                         THEN << <<"audience", config.audience.v>> >> ELSE <<>>)
                     \o (IF inParams
                         THEN << <<"client_id", config.clientId.v>>,
                                 <<"client_secret", config.clientSecret.v>> >>
                         ELSE <<>>)
             hdrs == << <<"Content-Type", Str("application/x-www-form-urlencoded")>>,
                        <<"Accept", Str("application/json")>>,
                        <<"User-Agent", Str(SGNL_USER_AGENT)>> >>
                     \o (IF inParams THEN <<>>
                         ELSE << <<"Authorization",
                                   Str("Basic " \o Btoa(config.clientId.v \o ":"
                                                        \o config.clientSecret.v))>> >>)
         IN Return(Request("token", "POST", config.tokenUrl.v, Obj(hdrs),
                           Str(FormEncode(form))))

\* getAuthorizationHeader with basic auth tried before the bearer token
getAuthorizationHeader_BasicFirst(ctx) ==
    LET env == Or(ctx.environment, Obj(<<>>))
        secrets == Or(ctx.secrets, Obj(<<>>))
        S(k) == Prop(secrets, k)
        E(k) == Prop(env, k)
    IN IF Truthy(S("BASIC_PASSWORD")) /\ Truthy(S("BASIC_USERNAME"))
       THEN [kind |-> "value",
             value |-> "Basic " \o Btoa(S("BASIC_USERNAME").v \o ":"
                                        \o S("BASIC_PASSWORD").v)]
       ELSE IF Truthy(S("BEARER_AUTH_TOKEN"))
       THEN [kind |-> "value", value |-> BearerOf(S("BEARER_AUTH_TOKEN").v)]
       ELSE IF Truthy(S("OAUTH2_AUTHORIZATION_CODE_ACCESS_TOKEN"))
       THEN [kind |-> "value",
             value |-> BearerOf(S("OAUTH2_AUTHORIZATION_CODE_ACCESS_TOKEN").v)]
       ELSE IF Truthy(S("OAUTH2_CLIENT_CREDENTIALS_CLIENT_SECRET"))
       THEN IF ~Truthy(E("OAUTH2_CLIENT_CREDENTIALS_TOKEN_URL"))
               \/ ~Truthy(E("OAUTH2_CLIENT_CREDENTIALS_CLIENT_ID"))
            THEN [kind |-> "throw", message |-> Str(MsgMissingOAuth2Env)]
            ELSE LET r == TokenRequest(
                            [tokenUrl |-> E("OAUTH2_CLIENT_CREDENTIALS_TOKEN_URL"),
                             clientId |-> E("OAUTH2_CLIENT_CREDENTIALS_CLIENT_ID"),
                             clientSecret |-> S("OAUTH2_CLIENT_CREDENTIALS_CLIENT_SECRET"),
                             scope |-> E("OAUTH2_CLIENT_CREDENTIALS_SCOPE"),
                             audience |-> E("OAUTH2_CLIENT_CREDENTIALS_AUDIENCE"),
                             authStyle |-> E("OAUTH2_CLIENT_CREDENTIALS_AUTH_STYLE")])
                 IN IF r.threw THEN [kind |-> "throw", message |-> r.message]
                    ELSE [kind |-> "fetch", request |-> r.value]
       ELSE [kind |-> "throw", message |-> Str(MsgNoAuth)]

\* getAuthorizationHeader(context), up to its first await: the header value
\* (kind "value"), the token request to send (kind "fetch") or the error
\* thrown (kind "throw").
getAuthorizationHeader(ctx) ==
    LET env == Or(ctx.environment, Obj(<<>>))
        secrets == Or(ctx.secrets, Obj(<<>>))
        S(k) == Prop(secrets, k)
        E(k) == Prop(env, k)
    IN IF Truthy(S("BEARER_AUTH_TOKEN"))
       THEN [kind |-> "value", value |-> BearerOf(S("BEARER_AUTH_TOKEN").v)]
       ELSE IF Truthy(S("BASIC_PASSWORD")) /\ Truthy(S("BASIC_USERNAME"))
       THEN [kind |-> "value",
             value |-> "Basic " \o Btoa(S("BASIC_USERNAME").v \o ":"
                                        \o S("BASIC_PASSWORD").v)]
       ELSE IF Truthy(S("OAUTH2_AUTHORIZATION_CODE_ACCESS_TOKEN"))
       THEN [kind |-> "value",
             value |-> BearerOf(S("OAUTH2_AUTHORIZATION_CODE_ACCESS_TOKEN").v)]
       ELSE IF Truthy(S("OAUTH2_CLIENT_CREDENTIALS_CLIENT_SECRET"))
       THEN IF ~Truthy(E("OAUTH2_CLIENT_CREDENTIALS_TOKEN_URL"))
               \/ ~Truthy(E("OAUTH2_CLIENT_CREDENTIALS_CLIENT_ID"))
            THEN [kind |-> "throw", message |-> Str(MsgMissingOAuth2Env)]
            ELSE LET r == TokenRequest(
                            [tokenUrl |-> E("OAUTH2_CLIENT_CREDENTIALS_TOKEN_URL"),
                             clientId |-> E("OAUTH2_CLIENT_CREDENTIALS_CLIENT_ID"),
                             clientSecret |-> S("OAUTH2_CLIENT_CREDENTIALS_CLIENT_SECRET"),
                             scope |-> E("OAUTH2_CLIENT_CREDENTIALS_SCOPE"),
                             audience |-> E("OAUTH2_CLIENT_CREDENTIALS_AUDIENCE"),
                             authStyle |-> E("OAUTH2_CLIENT_CREDENTIALS_AUTH_STYLE")])
                 IN IF r.threw THEN [kind |-> "throw", message |-> r.message]
                    ELSE [kind |-> "fetch", request |-> r.value]
       ELSE [kind |-> "throw", message |-> Str(MsgNoAuth)]

-----------------------------------------------------------------------------
(* TypeErrors of the runtime *)

TypeOfText(x) ==
    CASE x.t = "number" -> NumToStr(x.v)
      [] x.t = "string" -> x.v
      [] x.t = "boolean" -> IF x.v THEN "true" ELSE "false"
      [] OTHER -> x.t

MsgCannotRead(x, k) ==
    "Cannot read properties of " \o x.t \o " (reading '" \o k \o "')"
MsgCannotCreate(x, k) ==
    "Cannot create property '" \o k \o "' on " \o x.t \o " '" \o TypeOfText(x) \o "'"
MsgNotAFunction == "acceptedStatusCodes.includes is not a function"
\* The wording of fetch's rejection of an options.headers value that is no
\* HeadersInit is the runtime's.
MsgInvalidHeadersInit == "Headers constructor: Invalid value"
MsgBodyUnusable == "Body is unusable: Body has already been read"

\* h[k] = v
WriteHeader(h, k, v) ==
    IF CanWriteProps(h) THEN Return(SetProp(h, k, v))
    ELSE Throw(Str(MsgCannotCreate(h, k)))

-----------------------------------------------------------------------------
(* invoke: the stretches of code between two awaits *)

\* The locals of invoke.  aliased: headers is the caller's requestHeaders
\* object itself.
InitLoc ==
    [url |-> Undef, headers |-> Undef, aliased |-> FALSE, body |-> Undef,
     codes |-> Undef]

\* How a stretch ends: in an error, or suspended on a fetch
Thrown(m, l) == [kind |-> "throw", message |-> m, loc |-> l, request |-> Undef]
Suspended(req, l) == [kind |-> "fetch", message |-> Undef, loc |-> l, request |-> req]

\* URL composition of the strict and lenient builds
ComposeURL(p, ctx) ==
    LET base == getBaseURL(p, ctx)
    IN IF base.threw
       THEN IF Truthy(p.addressSuffix) THEN Throw(Str(MsgSuffixWithoutBase))
            ELSE base
       ELSE IF Truthy(p.addressSuffix)
            THEN LET suffix == IF StartsWith(p.addressSuffix.v, "/")
                               THEN p.addressSuffix.v
                               ELSE "/" \o p.addressSuffix.v
                 IN Return(base.value \o suffix)
            ELSE base

\* The slash handling of the legacy build
LegacyJoin(url, suffix) ==
    IF EndsWith(url, "/") /\ StartsWith(suffix, "/")
    THEN url \o SubSeq(suffix, 2, Len(suffix))
    ELSE IF ~EndsWith(url, "/") /\ ~StartsWith(suffix, "/")
         THEN url \o "/" \o suffix
         ELSE url \o suffix

\* URL composition of the legacy build
ComposeURLLegacy(p, ctx) ==
    LET envAddress == IF Truthy(ctx.environment)
                      THEN Prop(ctx.environment, "ADDRESS") ELSE Undef
    IN IF Truthy(p.address)
       THEN Return(IF Truthy(p.addressSuffix)
                   THEN LegacyJoin(p.address.v, p.addressSuffix.v)
                   ELSE p.address.v)
       ELSE IF Truthy(envAddress)
            THEN Return(IF Truthy(p.addressSuffix)
                        THEN LegacyJoin(envAddress.v, p.addressSuffix.v)
                        ELSE envAddress.v)
            ELSE IF Truthy(p.addressSuffix)
                 THEN Throw(Str(MsgSuffixWithoutBaseLegacy))
                 ELSE Throw(Str(MsgNoURLLegacy))

\* The header parsing step.  style is the engine's wording of a SyntaxError.
ParseRequestHeaders(p, style) ==
    IF ~Truthy(p.requestHeaders)
    THEN Return([headers |-> Obj(<<>>), aliased |-> FALSE])
    ELSE IF IsStr(p.requestHeaders)
         THEN IF JSONParses(p.requestHeaders.v)
              THEN Return([headers |-> JSONParse(p.requestHeaders.v),
                           aliased |-> FALSE])
              ELSE Throw(Str("Failed to parse requestHeaders: "
                        \o SyntaxErrorMessage(p.requestHeaders.v, style)))
         ELSE IF p.requestHeaders.t \in {"object", "array"}
              THEN Return([headers |-> p.requestHeaders, aliased |-> TRUE])
              ELSE Return([headers |-> Obj(<<>>), aliased |-> FALSE])

\* !headers.Authorization && !headers.authorization
NoAuthorization(h) ==
    ~Truthy(Prop(h, "Authorization")) /\ ~Truthy(Prop(h, "authorization"))

\* The catch of the auth step: only "no auth configured" is swallowed
AuthErrorSwallowed(m) ==
    Includes(m, "No authentication configured")

\* The accepted-status-codes step
ParseAcceptedStatusCodes(p, style) ==
    IF ~Truthy(p.acceptedStatusCodes) THEN Return(Arr(<<>>))
    ELSE IF IsArr(p.acceptedStatusCodes) THEN Return(p.acceptedStatusCodes)
    ELSE IF IsStr(p.acceptedStatusCodes)
         THEN IF JSONParses(p.acceptedStatusCodes.v)
              THEN Return(JSONParse(p.acceptedStatusCodes.v))
              ELSE Throw(Str("Failed to parse acceptedStatusCodes: "
                        \o SyntaxErrorMessage(p.acceptedStatusCodes.v, style)))
         ELSE Return(Arr(<<>>))

\* The request-body step: a structured body is stringified
RequestBody(p) ==
    IF Truthy(p.requestBody) /\ p.requestBody.t \in {"object", "array"}
    THEN Str(JSONStringify(p.requestBody))
    ELSE p.requestBody

methodsWithBody == {"POST", "PUT", "PATCH", "DELETE"}

\* What fetch takes as options.headers: a record of strings, or a sequence of
\* name-value pairs (the named properties of an array are not part of it)
FetchAcceptsHeaders(h) == IsObj(h) \/ (IsArr(h) /\ h.v = <<>>)

\* makeWebhookRequest attaching the body whatever the method is
makeWebhookRequest_AnyMethodBody(method, url, headers, body) ==
    LET m == ToUpperCase(method.v)
        oh == IF ~Truthy(headers) THEN Obj(<<>>) ELSE headers
    IN [threw |-> FALSE, message |-> Undef, headers |-> headers,
        request |-> Request("primary", m, url, oh,
                            IF Truthy(body) THEN body ELSE Undef)]

\* makeWebhookRequest up to its fetch.  Gives the headers object as the writes
\* leave it (written: the headers passed in were written to) and the request,
\* or the error thrown.
makeWebhookRequest(method, url, headers, body) ==
    LET m == ToUpperCase(method.v)
        own == ~Truthy(headers)
        oh == IF own THEN Obj(<<>>) ELSE headers
        attach == m \in methodsWithBody /\ Truthy(body)
        inject == attach /\ ~Truthy(Prop(oh, "Content-Type"))
                         /\ ~Truthy(Prop(oh, "content-type"))
        w == IF inject THEN WriteHeader(oh, "Content-Type", Str("application/json"))
             ELSE Return(oh)
    IN IF w.threw
       THEN [threw |-> TRUE, message |-> w.message, headers |-> headers,
             request |-> Undef]
       ELSE IF ~FetchAcceptsHeaders(w.value)
            THEN [threw |-> TRUE, message |-> Str(MsgInvalidHeadersInit),
                  headers |-> IF own THEN headers ELSE w.value, request |-> Undef]
            ELSE [threw |-> FALSE, message |-> Undef,
                  headers |-> IF own THEN headers ELSE w.value,
                  request |-> Request("primary", m, url, w.value,
                                      IF attach THEN body ELSE Undef)]

\* !headers['User-Agent'] && !headers['user-agent']
NoUserAgent(h) ==
    ~Truthy(Prop(h, "User-Agent")) /\ ~Truthy(Prop(h, "user-agent"))

\* The User-Agent step, which only the strict build has
UserAgentStep(v, h) ==
    IF v # "strict" THEN Return(h)
    ELSE IF ~CanReadProps(h) THEN Throw(Str(MsgCannotRead(h, "User-Agent")))
    ELSE IF NoUserAgent(h) THEN WriteHeader(h, "User-Agent", Str(SGNL_USER_AGENT))
    ELSE Return(h)

\* invoke from the end of the auth step to the fetch of the primary request
AfterAuth(v, p, l, style) ==
    LET ua == UserAgentStep(v, l.headers)
    IN IF ua.threw THEN Thrown(ua.message, l)
       ELSE LET l1 == [l EXCEPT !.headers = ua.value, !.body = RequestBody(p)]
                codes == ParseAcceptedStatusCodes(p, style)
            IN IF codes.threw THEN Thrown(codes.message, l1)
               ELSE LET l2 == [l1 EXCEPT !.codes = codes.value]
                        mk == makeWebhookRequest(p.method, l2.url.v, l2.headers,
                                                 l2.body)
                        l3 == [l2 EXCEPT !.headers = mk.headers]
                    IN IF mk.threw THEN Thrown(mk.message, l3)
                       ELSE Suspended(mk.request, l3)

\* The catch of the auth step, given the message of the error caught
AuthCatch(v, p, l, m, style) ==
    IF ~IsStr(m) THEN Thrown(Str(MsgCannotRead(m, "includes")), l)
    ELSE IF AuthErrorSwallowed(m.v) THEN AfterAuth(v, p, l, style)
    ELSE Thrown(m, l)

\* The auth step with the header of the earlier invocation kept for the next
AuthResolved_EarlierToken(v, p, l, value, style) ==
    LET w == WriteHeader(l.headers, "Authorization",
                         Str(IF earlier.token # "" THEN earlier.token ELSE value))
    IN IF w.threw THEN AuthCatch(v, p, l, w.message, style)
       ELSE AfterAuth(v, p, [l EXCEPT !.headers = w.value], style)

\* headers.Authorization = authHeader inside the try of the auth step, and on
AuthResolved(v, p, l, value, style) ==
    LET w == WriteHeader(l.headers, "Authorization", Str(value))
    IN IF w.threw THEN AuthCatch(v, p, l, w.message, style)
       ELSE AfterAuth(v, p, [l EXCEPT !.headers = w.value], style)

\* The auth step of the strict and lenient builds
AuthStep(v, p, l, ctx, style) ==
    IF ~CanReadProps(l.headers)
    THEN Thrown(Str(MsgCannotRead(l.headers, "Authorization")), l)
    ELSE IF ~NoAuthorization(l.headers) THEN AfterAuth(v, p, l, style)
    ELSE LET plan == getAuthorizationHeader(ctx)
         IN CASE plan.kind = "value" -> AuthResolved(v, p, l, plan.value, style)
              [] plan.kind = "throw" -> AuthCatch(v, p, l, plan.message, style)
              [] plan.kind = "fetch" -> Suspended(plan.request, l)

\* headers.Authorization = `Bearer ${token}` of the legacy build, and on
WithAuthorization(v, p, l, value, style) ==
    LET w == WriteHeader(l.headers, "Authorization", Str(value))
    IN IF w.threw THEN Thrown(w.message, l)
       ELSE AfterAuth(v, p, [l EXCEPT !.headers = w.value], style)

\* The auth step of the legacy build: the bearer token alone, as it is stored
AuthStepLegacy(v, p, l, ctx, style) ==
    IF Truthy(ctx.secrets) /\ Truthy(Prop(ctx.secrets, "BEARER_AUTH_TOKEN"))
    THEN IF ~CanReadProps(l.headers)
         THEN Thrown(Str(MsgCannotRead(l.headers, "Authorization")), l)
         ELSE IF NoAuthorization(l.headers)
              THEN WithAuthorization(v, p, l,
                       "Bearer " \o Prop(ctx.secrets, "BEARER_AUTH_TOKEN").v, style)
              ELSE AfterAuth(v, p, l, style)
    ELSE AfterAuth(v, p, l, style)

\* invoke with the method checked after the URL is resolved
invoke_MethodCheckLate(v, p, ctx, style) ==
    LET url == IF v = "legacy" THEN ComposeURLLegacy(p, ctx) ELSE ComposeURL(p, ctx)
    IN IF url.threw THEN Thrown(url.message, InitLoc)
       ELSE IF ~Truthy(p.method) THEN Thrown(Str(MsgMethodRequired), InitLoc)
       ELSE LET l1 == [InitLoc EXCEPT !.url = Str(url.value)]
                hs == ParseRequestHeaders(p, style)
            IN IF hs.threw THEN Thrown(hs.message, l1)
               ELSE LET l2 == [l1 EXCEPT !.headers = hs.value.headers,
                                         !.aliased = hs.value.aliased]
                    IN IF v = "legacy" THEN AuthStepLegacy(v, p, l2, ctx, style)
                       ELSE AuthStep(v, p, l2, ctx, style)

\* invoke from its call to its first fetch.  The lenient build first resolves
\* JSONPath templates in params; the params of this model hold no template
\* and resolve to themselves.
invoke(v, p, ctx, style) ==
    IF ~Truthy(p.method) THEN Thrown(Str(MsgMethodRequired), InitLoc)
    ELSE LET url == IF v = "legacy" THEN ComposeURLLegacy(p, ctx)
                    ELSE ComposeURL(p, ctx)
         IN IF url.threw THEN Thrown(url.message, InitLoc)
            ELSE LET l1 == [InitLoc EXCEPT !.url = Str(url.value)]
                     hs == ParseRequestHeaders(p, style)
                 IN IF hs.threw THEN Thrown(hs.message, l1)
                    ELSE LET l2 == [l1 EXCEPT !.headers = hs.value.headers,
                                              !.aliased = hs.value.aliased]
                         IN IF v = "legacy" THEN AuthStepLegacy(v, p, l2, ctx, style)
                            ELSE AuthStep(v, p, l2, ctx, style)

-----------------------------------------------------------------------------
(* The responses *)

StatusText(status) ==
    CASE status = 200 -> "OK"
      [] status = 401 -> "Unauthorized"
      [] OTHER -> "Internal Server Error"

\* getClientCredentialsToken from the resolution of its fetch, and the return
\* of getAuthorizationHeader: the header value, or the error thrown.  A
\* response body can be consumed once: text() after json() throws.
TokenOutcome(status, text, style) ==
    IF ~(200 <= status /\ status < 300)
    THEN IF JSONParses(text)
         THEN Throw(Str("OAuth2 token request failed: " \o NumToStr(status) \o " "
                        \o StatusText(status) \o " - "
                        \o JSONStringify(JSONParse(text))))
         ELSE Throw(Str(MsgBodyUnusable))
    ELSE IF ~JSONParses(text) THEN Throw(Str(SyntaxErrorMessage(text, style)))
    ELSE LET data == JSONParse(text)
         IN IF ~CanReadProps(data)
            THEN Throw(Str(MsgCannotRead(data, "access_token")))
            ELSE IF ~Truthy(Prop(data, "access_token"))
                 THEN Throw(Str(MsgNoAccessToken))
                 ELSE Return("Bearer " \o Prop(data, "access_token").v)

\* isSuccess with the upper end of the success range included
IsSuccess_Upto300(status, codes) ==
    IF 200 <= status /\ status <= 300 THEN Return(Bool(TRUE))
    ELSE IF ~Truthy(codes) THEN Return(codes)
    ELSE CASE IsArr(codes) ->
                Return(Bool(\E i \in 1..Len(codes.v) : codes.v[i] = Num(status)))
           [] IsStr(codes) -> Return(Bool(Includes(codes.v, NumToStr(status))))
           [] OTHER -> Throw(Str(MsgNotAFunction))

\* isSuccess: a JavaScript value, or the TypeError of calling includes on a
\* value that has none
IsSuccess(status, codes) ==
    IF 200 <= status /\ status < 300 THEN Return(Bool(TRUE))
    ELSE IF ~Truthy(codes) THEN Return(codes)
    ELSE CASE IsArr(codes) ->
                Return(Bool(\E i \in 1..Len(codes.v) : codes.v[i] = Num(status)))
           [] IsStr(codes) -> Return(Bool(Includes(codes.v, NumToStr(status))))
           [] OTHER -> Throw(Str(MsgNotAFunction))

\* makeWebhookRequest with the failure of the body read propagated
makeWebhookRequestResult_ReadThrows(status, readable, text, codes) ==
    LET ok == IsSuccess(status, codes)
    IN IF ~readable THEN Throw(Str(MsgBodyUnusable))
       ELSE IF ok.threw THEN ok
       ELSE Return([statusCode |-> status, body |-> text, success |-> ok.value])

\* makeWebhookRequest from the resolution of its fetch: the body read and the
\* result
makeWebhookRequestResult(status, readable, text, codes) ==
    LET responseBody == IF readable THEN text ELSE ""
        ok == IsSuccess(status, codes)
    IN IF ok.threw THEN ok
       ELSE Return([statusCode |-> status, body |-> responseBody,
                    success |-> ok.value])

NoOutcome == [kind |-> "none", message |-> Undef, status |-> "", data |-> Undef]
Threw(m) == [kind |-> "threw", message |-> m, status |-> "", data |-> Undef]
Returned(st, d) == [kind |-> "returned", message |-> Undef, status |-> st, data |-> d]

MsgRequestFailed(result) ==
    "Request failed with status code: " \o NumToStr(result.statusCode)
    \o ". Response body: " \o result.body \o "."

\* invoke with the timestamp taken when the response arrived, before its body
\* is read
Conclude_StampBeforeRead(v, r, t) ==
    IF r.threw THEN Threw(r.message)
    ELSE IF v = "strict" /\ ~Truthy(r.value.success)
         THEN Threw(Str(MsgRequestFailed(r.value)))
         ELSE Returned("success",
                       [statusCode |-> r.value.statusCode, body |-> r.value.body,
                        success |-> r.value.success, executedAt |-> response.at])

\* invoke returning the envelope whatever the success flag says
Conclude_NeverThrows(v, r, t) ==
    IF r.threw THEN Threw(r.message)
    ELSE Returned("success",
                  [statusCode |-> r.value.statusCode, body |-> r.value.body,
                   success |-> r.value.success, executedAt |-> t])

\* invoke from the return of makeWebhookRequest
Conclude(v, r, t) ==
    IF r.threw THEN Threw(r.message)
    ELSE IF v = "strict" /\ ~Truthy(r.value.success)
         THEN Threw(Str(MsgRequestFailed(r.value)))
         ELSE Returned("success",
                       [statusCode |-> r.value.statusCode, body |-> r.value.body,
                        success |-> r.value.success, executedAt |-> t])

-----------------------------------------------------------------------------
(* The error and halt handlers *)

RetryableMarkers == {"ECONNREFUSED", "ETIMEDOUT", "ENOTFOUND", "fetch failed", "network"}
FatalMarkers == {"is required", "Failed to parse", "No URL specified"}

NoReply == [handler |-> "none", status |-> "", threw |-> FALSE, message |-> Undef]

\* error with the fatal markers tested before the retryable ones
error_FatalFirst(m) ==
    IF Truthy(m) /\ \E k \in FatalMarkers : Includes(m.v, k)
    THEN [handler |-> "error", status |-> "", threw |-> TRUE, message |-> m]
    ELSE [handler |-> "error", status |-> "retry_requested", threw |-> FALSE,
          message |-> Undef]

\* error({error}): the status returned, or the error rethrown
error(m) ==
    IF Truthy(m) /\ \E k \in RetryableMarkers : Includes(m.v, k)
    THEN [handler |-> "error", status |-> "retry_requested", threw |-> FALSE,
          message |-> Undef]
    ELSE IF Truthy(m) /\ \E k \in FatalMarkers : Includes(m.v, k)
         THEN [handler |-> "error", status |-> "", threw |-> TRUE, message |-> m]
         ELSE [handler |-> "error", status |-> "retry_requested", threw |-> FALSE,
               message |-> Undef]

\* halt raising instead of returning
halt_Raises == [handler |-> "halt", status |-> "", threw |-> TRUE, message |-> Str("halted")]

halt == [handler |-> "halt", status |-> "halted", threw |-> FALSE, message |-> Undef]

-----------------------------------------------------------------------------
(* The inputs of the model *)

Variants == {"strict", "lenient", "legacy"}

P(m, a, sfx, h, b, c) ==
    [method |-> m, address |-> a, addressSuffix |-> sfx, requestHeaders |-> h,
     requestBody |-> b, acceptedStatusCodes |-> c]

Opt(k, x) == IF x = Undef THEN <<>> ELSE << <<k, x>> >>

Secrets(bearer, user, password, code, secret) ==
    Obj(Opt("BEARER_AUTH_TOKEN", bearer) \o Opt("BASIC_USERNAME", user)
        \o Opt("BASIC_PASSWORD", password)
        \o Opt("OAUTH2_AUTHORIZATION_CODE_ACCESS_TOKEN", code)
        \o Opt("OAUTH2_CLIENT_CREDENTIALS_CLIENT_SECRET", secret))

Env(address, tokenUrl, clientId, style, scope, audience) ==
    Obj(Opt("ADDRESS", address)
        \o Opt("OAUTH2_CLIENT_CREDENTIALS_TOKEN_URL", tokenUrl)
        \o Opt("OAUTH2_CLIENT_CREDENTIALS_CLIENT_ID", clientId)
        \o Opt("OAUTH2_CLIENT_CREDENTIALS_AUTH_STYLE", style)
        \o Opt("OAUTH2_CLIENT_CREDENTIALS_SCOPE", scope)
        \o Opt("OAUTH2_CLIENT_CREDENTIALS_AUDIENCE", audience))

Ctx(env, secrets) == [environment |-> env, secrets |-> secrets]

\* A context without environment and secrets, and one that selects the
\* client-credentials flow
EmptyCtx == Ctx(Undef, Undef)
TokenUrl == Str("https://idp.io/token")
ClientCtx ==
    Ctx(Env(Undef, TokenUrl, Str("client-1"), Undef, Undef, Undef),
        Secrets(Undef, Undef, Undef, Undef, Str("s3cret")))
BearerCtx == Ctx(Undef, Secrets(Str("tok-0"), Undef, Undef, Undef, Undef))

AddressA == "https://a.io/v1"
AddressE == "https://e.io"
BodyText == Str("{\"name\":\"John\"}")
BodyObject == Obj(<< <<"name", Str("John")>> >>)

\* Base addresses with 0..MaxSlashes trailing '/', suffixes with 0..MaxSlashes
\* leading '/'
Addresses == {Undef, Str("")} \cup {Str(AddressA \o Slashes(k)) : k \in 0..MaxSlashes}
Environments ==
    {Undef, Env(Undef, Undef, Undef, Undef, Undef, Undef)}
    \cup {Env(Str(AddressE \o Slashes(k)), Undef, Undef, Undef, Undef, Undef) :
            k \in 0..MaxSlashes}
Suffixes == {Undef, Str("")} \cup {Str(Slashes(k) \o "items/1") : k \in 0..MaxSlashes}

Methods ==
    {Str("get"), Str("GET"), Str("Post"), Str("PUT"), Str("patch"),
     Str("DELETE"), Str("head"), Str("Options")}

\* Invalid method, with the later inputs valid or not
ValidationInputs ==
    {<<P(m, a, Undef, h, Undef, c), ctx>> :
        m \in {Undef, Str("")}, a \in {Undef, Str(AddressA)},
        h \in {Undef, Str("not json")}, c \in {Undef, Str("not json")},
        ctx \in {EmptyCtx, ClientCtx}}

URLInputs ==
    {<<P(Str("get"), a, sfx, Undef, Undef, Undef), Ctx(env, Undef)>> :
        a \in Addresses, env \in Environments, sfx \in Suffixes}

AuthHeaders ==
    {Undef,
     Obj(<< <<"Authorization", Str(HdrAuthValue)>> >>),
     Obj(<< <<"authorization", Str(HdrAuthValue)>> >>),
     Obj(<< <<"AUTHORIZATION", Str(HdrAuthValue)>> >>),
     Obj(<< <<"X-Custom-Header", Str("value")>> >>),
     Str(JSONStringify(Obj(<< <<"Authorization", Str(HdrAuthValue)>> >>))),
     Str(JSONStringify(Obj(<< <<"AUTHORIZATION", Str(HdrAuthValue)>> >>))),
     Str(JSONStringify(Obj(<< <<"Authorization", Str("")>> >>)))}

AuthContexts ==
    {Ctx(Env(Undef, url, id, Undef, Undef, Undef), Secrets(b, u, pw, code, cs)) :
        url \in {Undef, TokenUrl}, id \in {Undef, Str("client-1")},
        b \in {Undef, Str("tok-0"), Str("Bearer tok-0")},
        u \in {Undef, Str("user")}, pw \in {Undef, Str("pass")},
        code \in {Undef, Str("tok-9")}, cs \in {Undef, Str("s3cret")}}

AuthInputs ==
    {<<P(Str("GET"), Str(AddressA), Undef, h, Undef, Undef), ctx>> :
        h \in AuthHeaders, ctx \in AuthContexts}

\* The client-credentials configurations
TokenInputs ==
    {<<P(Str("GET"), Str(AddressA), Undef, Undef, Undef, Undef),
       Ctx(Env(Undef, TokenUrl, Str("client-1"), style, scope, aud),
           Secrets(Undef, Undef, Undef, Undef, Str("s3cret")))>> :
        style \in {Undef, Str("InParams"), Str("InHeader")},
        scope \in {Undef, Str("read")}, aud \in {Undef, Str("api")}}

RequestHeaders ==
    {Undef, Obj(<<>>),
     Obj(<< <<"Content-Type", Str("text/plain")>> >>),
     Obj(<< <<"content-type", Str("text/plain")>> >>),
     Obj(<< <<"CONTENT-TYPE", Str("text/plain")>> >>),
     Obj(<< <<"User-Agent", Str("caller/1.0")>> >>),
     Str(JSONStringify(Obj(<< <<"Content-Type", Str("text/plain")>> >>))),
     Str(JSONStringify(Obj(<< <<"X-Custom-Header", Str("value")>> >>)))}

RequestInputs ==
    {<<P(m, Str(AddressA), Undef, h, b, Undef), EmptyCtx>> :
        m \in Methods, h \in RequestHeaders,
        b \in {Undef, Str(""), BodyText, BodyObject}}

AcceptedStatusCodes ==
    {Undef, Str(""), Num(404)} \cup {Arr(a) : a \in CodeArrays}
    \cup {Str(JSONStringify(Arr(a))) : a \in CodeArrays}
    \cup {Str(JSONStringify(x)) : x \in {Num(404), Num(0), Str("404"), Null,
                                          Bool(TRUE), Obj(<<>>)}}
    \cup {Str("not json")}

CodesInputs ==
    {<<P(Str("GET"), Str(AddressA), Undef, Undef, Undef, c), EmptyCtx>> :
        c \in AcceptedStatusCodes}

\* Parse failures, with and without a client-credentials configuration
ParseInputs ==
    {<<P(Str("POST"), Str(AddressA), Undef, h, BodyText, c), ctx>> :
        h \in {Undef, Str("not json"), Str("ETIMEDOUT")}
              \cup {Str(JSONStringify(x)) :
                      x \in {Arr(<<>>), Arr(<<Num(404)>>), Num(404), Num(0),
                             Str("404"), Null, Bool(TRUE)}},
        c \in {Undef, Str("{invalid")},
        ctx \in {EmptyCtx, BearerCtx, ClientCtx}}

\* The calls of invoke the model makes, for each build
Inputs(v) ==
    CASE v = "strict" ->
           ValidationInputs \cup URLInputs \cup AuthInputs \cup TokenInputs
           \cup RequestInputs \cup CodesInputs \cup ParseInputs
      [] v = "lenient" ->
           ValidationInputs \cup CodesInputs \cup ParseInputs \cup TokenInputs
      [] v = "legacy" ->
           ValidationInputs \cup URLInputs \cup CodesInputs
           \cup {<<P(Str("POST"), Str(AddressA), Undef, h, BodyText, Undef), ctx>> :
                   h \in AuthHeaders, ctx \in {EmptyCtx, BearerCtx}}

\* The statuses of the primary response, the texts of its body, the responses
\* of the token endpoint, and the errors a fetch rejects with
Statuses == {199, 200, 204, 299, 300, 404, 500}
BodyTexts == {"", "{\"id\":\"123\"}", "{\"error\":\"name is required\"}"}
TokenStatuses == {200, 401, 500}
TokenTexts == {JSONStringify(Obj(o)) : o \in TokenObjects}
              \cup {"null", "{}", "<html>Bad Gateway</html>"}
NetErrors ==
    {Str("fetch failed"), Str("connect ECONNREFUSED 10.0.0.1:443"),
     Str("connect ETIMEDOUT 10.0.0.1:443"), Str("getaddrinfo ENOTFOUND a.io"),
     Str("network name is required"), Str("socket hang up"), Str(""), Undef}

-----------------------------------------------------------------------------
(* The state machine *)

NoParams == P(Undef, Undef, Undef, Undef, Undef, Undef)
NoResponse == [status |-> 0, read |-> "none", body |-> "", at |-> 0]
NoTokenResponse ==
    [received |-> FALSE, status |-> 0, text |-> "", threw |-> FALSE,
     message |-> Undef, value |-> ""]
NoEarlier == [n |-> 0, supplied |-> Undef, object |-> Undef, token |-> ""]

\* The second invocation of a pair: the caller passes the requestHeaders
\* object of the first again, or none
SecondInputs ==
    {<<P(Str("GET"), Str(AddressA), Undef, h, Undef, Undef), ctx>> :
        h \in {Undef, earlier.object}, ctx \in {EmptyCtx, ClientCtx}}

Init ==
    /\ variant \in Variants
    /\ pc = "idle"
    /\ params = NoParams
    /\ context = EmptyCtx
    /\ callerObj = Undef
    /\ loc = InitLoc
    /\ requests = <<>>
    /\ response = NoResponse
    /\ outcome = NoOutcome
    /\ reply = NoReply
    /\ now = 0
    /\ tokenResponse = NoTokenResponse
    /\ earlier = NoEarlier

\* The end of a stretch of invoke: r is Thrown or Suspended
Enter(r) ==
    /\ pc' = IF r.kind = "throw" THEN "failed"
             ELSE IF r.request.kind = "token" THEN "token_wait"
             ELSE "primary_wait"
    /\ loc' = r.loc
    /\ requests' = IF r.kind = "fetch" THEN Append(requests, r.request)
                   ELSE requests
    /\ outcome' = IF r.kind = "throw" THEN Threw(r.message) ELSE outcome
    /\ now' = now + 1

\* The framework calls invoke(params, context)
Invoke ==
    /\ pc = "idle"
    /\ \E in \in (IF earlier.n = 0 THEN Inputs(variant) ELSE SecondInputs),
          style \in EngineStyles :
         LET p == in[1]
             ctx == in[2]
             r == invoke(variant, p, ctx, style)
         IN /\ params' = p
            /\ context' = ctx
            /\ Enter(r)
            /\ callerObj' = IF p.requestHeaders.t \in {"object", "array"}
                            THEN IF r.loc.aliased THEN r.loc.headers
                                 ELSE p.requestHeaders
                            ELSE Undef
    /\ UNCHANGED <<variant, response, reply, tokenResponse, earlier>>

\* The fetch of the token request rejects
TokenFetchFails ==
    /\ pc = "token_wait"
    /\ \E e \in NetErrors, style \in EngineStyles :
         LET r == AuthCatch(variant, params, loc, e, style)
         IN /\ Enter(r)
            /\ callerObj' = IF r.loc.aliased THEN r.loc.headers ELSE callerObj
    /\ UNCHANGED <<variant, params, context, response, reply, tokenResponse,
                   earlier>>

\* The token endpoint answers
TokenResponse ==
    /\ pc = "token_wait"
    /\ \E status \in TokenStatuses, text \in TokenTexts, style \in EngineStyles :
         LET o == TokenOutcome(status, text, style)
             r == IF o.threw THEN AuthCatch(variant, params, loc, o.message, style)
                  ELSE AuthResolved(variant, params, loc, o.value, style)
         IN /\ Enter(r)
            /\ callerObj' = IF r.loc.aliased THEN r.loc.headers ELSE callerObj
            /\ tokenResponse' =
                 [received |-> TRUE, status |-> status, text |-> text,
                  threw |-> o.threw,
                  message |-> IF o.threw THEN o.message ELSE Undef,
                  value |-> IF o.threw THEN "" ELSE o.value]
    /\ UNCHANGED <<variant, params, context, response, reply, earlier>>

\* The fetch of the primary request rejects
PrimaryFetchFails ==
    /\ pc = "primary_wait"
    /\ \E e \in NetErrors : outcome' = Threw(e)
    /\ pc' = "failed"
    /\ now' = now + 1
    /\ UNCHANGED <<variant, params, context, callerObj, loc, requests, response,
                   reply, tokenResponse, earlier>>

\* The primary response arrives: its status line
PrimaryResponse ==
    /\ pc = "primary_wait"
    /\ \E status \in Statuses :
         response' = [status |-> status, read |-> "pending", body |-> "",
                      at |-> now + 1]
    /\ pc' = "body_read"
    /\ now' = now + 1
    /\ UNCHANGED <<variant, params, context, callerObj, loc, requests, outcome,
                   reply, tokenResponse, earlier>>

\* response.text() settles, and invoke runs to its end
BodyRead ==
    /\ pc = "body_read"
    /\ \E readable \in BOOLEAN :
         \E text \in (IF readable THEN BodyTexts ELSE {""}) :
           LET r == makeWebhookRequestResult(response.status, readable, text,
                                             loc.codes)
               o == Conclude(variant, r, now + 1)
           IN /\ outcome' = o
              /\ pc' = IF o.kind = "threw" THEN "failed" ELSE "returned"
              /\ response' = [response EXCEPT
                                !.read = IF readable THEN "ok" ELSE "failed",
                                !.body = text]
    /\ now' = now + 1
    /\ UNCHANGED <<variant, params, context, callerObj, loc, requests, reply,
                   tokenResponse, earlier>>

\* The framework hands the error invoke threw to the error handler
ErrorHandler ==
    /\ pc = "failed"
    /\ reply' = error(outcome.message)
    /\ pc' = "classified"
    /\ UNCHANGED <<variant, params, context, callerObj, loc, requests, response,
                   outcome, now, tokenResponse, earlier>>

\* The framework calls halt
Halt ==
    /\ pc \in {"idle", "returned", "classified"}
    /\ reply' = halt
    /\ pc' = "halted"
    /\ UNCHANGED <<variant, params, context, callerObj, loc, requests, response,
                   outcome, now, tokenResponse, earlier>>

\* What this invocation leaves behind for the next: the caller's
\* requestHeaders object, when there is one, and the access token obtained
Left ==
    [n |-> 1,
     supplied |-> IF IsObj(params.requestHeaders) THEN params.requestHeaders
                  ELSE Undef,
     object |-> IF IsObj(callerObj) THEN callerObj ELSE Undef,
     token |-> IF tokenResponse.received /\ ~tokenResponse.threw
               THEN tokenResponse.value ELSE ""]

\* The invocation is over.  invoke keeps nothing: the locals, the requests and
\* the responses are gone; what stays is what the caller holds.  The model
\* follows pairs of invocations: after the first of a pair, the second is
\* called with SecondInputs.
Done ==
    /\ pc \in {"returned", "failed", "classified", "halted"}
    /\ tokenResponse' = NoTokenResponse
    /\ \E pair \in BOOLEAN :
         earlier' = IF /\ pair /\ earlier.n = 0
                       /\ (Left.object # Undef \/ Left.token # "")
                    THEN Left ELSE NoEarlier
    /\ pc' = "idle"
    /\ params' = NoParams
    /\ context' = EmptyCtx
    /\ callerObj' = Undef
    /\ loc' = InitLoc
    /\ requests' = <<>>
    /\ response' = NoResponse
    /\ outcome' = NoOutcome
    /\ reply' = NoReply
    /\ now' = 0
    /\ UNCHANGED variant

Next ==
    \/ Invoke
    \/ TokenFetchFails
    \/ TokenResponse
    \/ PrimaryFetchFails
    \/ PrimaryResponse
    \/ BodyRead
    \/ ErrorHandler
    \/ Halt
    \/ Done

Spec == Init /\ [][Next]_vars

-----------------------------------------------------------------------------
(* Vocabulary of the properties *)

\* invoke has been called and the invocation is under way or over
Called ==
    pc \in {"token_wait", "primary_wait", "body_read"} \/ outcome.kind # "none"

TokenRequests == {i \in 1..Len(requests) : requests[i].kind = "token"}
PrimaryRequests == {i \in 1..Len(requests) : requests[i].kind = "primary"}

ThrewMessage(m) == outcome.kind = "threw" /\ outcome.message = Str(m)
ThrewStarting(prefix) ==
    /\ outcome.kind = "threw"
    /\ IsStr(outcome.message)
    /\ StartsWith(outcome.message.v, prefix)

RECURSIVE TrimTrailing(_)
\* s without the '/' at its end
TrimTrailing(s) ==
    IF EndsWith(s, "/") THEN TrimTrailing(SubSeq(s, 1, Len(s) - 1)) ELSE s

RECURSIVE TrimLeading(_)
\* s without the '/' at its start
TrimLeading(s) == IF StartsWith(s, "/") THEN TrimLeading(Tail(s)) ELSE s

\* context.environment.ADDRESS, undefined without an environment
EnvAddress ==
    IF Truthy(context.environment) THEN Prop(context.environment, "ADDRESS")
    ELSE Undef

-----------------------------------------------------------------------------
(* C1 *)

\* C1: whenever params.method is absent or empty, invoke throws 'method is
\* required' and has done nothing else: no URL, no headers, no request,
\* whatever the other inputs are.
C1_MethodRequiredFirst ==
    (Called /\ ~Truthy(params.method)) =>
        /\ ThrewMessage("method is required")
        /\ requests = <<>>
        /\ loc = InitLoc

\* An invocation without method, without address, with unparsable headers and
\* status codes and with a client-credentials configuration has failed.
C1_Witness ==
    /\ pc = "failed"
    /\ params.method = Undef
    /\ params.address = Undef
    /\ params.requestHeaders = Str("not json")
    /\ params.acceptedStatusCodes = Str("not json")
    /\ context = ClientCtx
    /\ outcome.kind = "threw"

-----------------------------------------------------------------------------
(* C2 *)

\* C2: with a method, a non-empty params.address is the base of the URL also
\* when the environment has an ADDRESS; else a non-empty environment ADDRESS
\* is; with neither, invoke throws 'No URL specified...' without an
\* addressSuffix and the distinct 'addressSuffix provided but no base address
\* available...' with one, and no request is issued.
C2_BaseSelection ==
    (Called /\ Truthy(params.method)) =>
        IF Truthy(params.address)
        THEN IsStr(loc.url) /\ StartsWith(loc.url.v, TrimTrailing(params.address.v))
        ELSE IF Truthy(EnvAddress)
             THEN IsStr(loc.url) /\ StartsWith(loc.url.v, TrimTrailing(EnvAddress.v))
             ELSE /\ requests = <<>>
                  /\ IF Truthy(params.addressSuffix)
                     THEN /\ ThrewStarting("addressSuffix provided but no base address available")
                          /\ ~Includes(outcome.message.v, "No URL specified")
                     ELSE ThrewStarting("No URL specified")

\* The request went to params.address although the environment has an ADDRESS.
C2_Witness ==
    /\ pc = "primary_wait"
    /\ Truthy(params.address)
    /\ Truthy(EnvAddress)
    /\ requests[1].url = TrimTrailing(params.address.v)

-----------------------------------------------------------------------------
(* C3 *)

\* The base address invoke is given: params.address, else the environment's
GivenBase ==
    IF Truthy(params.address) THEN params.address.v ELSE EnvAddress.v

\* C3: whatever the number of '/' at the end of the base and at the start of
\* the addressSuffix, the URL of the primary request of the strict build has
\* exactly one '/' where base and suffix are joined.
C3_ExactlyOneSlashAtJoin ==
    (variant = "strict" /\ Truthy(params.addressSuffix)) =>
        \A i \in PrimaryRequests :
            requests[i].url = TrimTrailing(GivenBase) \o "/"
                              \o TrimLeading(params.addressSuffix.v)

-----------------------------------------------------------------------------
(* C4 *)

\* The mapping the caller supplied as requestHeaders: the object itself, or
\* the object its JSON text encodes
HeadersAreMapping ==
    \/ ~Truthy(params.requestHeaders)
    \/ IsObj(params.requestHeaders)
    \/ /\ IsStr(params.requestHeaders)
       /\ JSONParses(params.requestHeaders.v)
       /\ IsObj(JSONParse(params.requestHeaders.v))
CallerMapping ==
    IF ~Truthy(params.requestHeaders) THEN <<>>
    ELSE IF IsObj(params.requestHeaders) THEN params.requestHeaders.v
    ELSE JSONParse(params.requestHeaders.v).v

\* The caller's keys that spell Authorization in some letter casing
CallerAuthKeys == {k \in Keys(CallerMapping) : ToLowerCase(k) = "authorization"}

Secret(k) == Prop(Or(context.secrets, Obj(<<>>)), k)
EnvVar(k) == Prop(Or(context.environment, Obj(<<>>)), k)
AsBearer(token) ==
    IF StartsWith(token, "Bearer ") THEN token ELSE "Bearer " \o token

\* C4: when the strict or lenient build resolves the auth method (the caller
\* set no Authorization header), the Authorization header is that of the first
\* of bearer token, basic username with password, authorization-code token,
\* client-credentials secret whose secrets are all present, and a token
\* request is issued only when the first three are not.
C4_AuthPrecedence ==
    (/\ Called /\ variant # "legacy" /\ Truthy(params.method) /\ IsStr(loc.url)
     /\ HeadersAreMapping /\ CallerAuthKeys = {}) =>
        LET auth == Prop(loc.headers, "Authorization")
        IN IF Truthy(Secret("BEARER_AUTH_TOKEN"))
           THEN /\ TokenRequests = {}
                /\ auth = Str(AsBearer(Secret("BEARER_AUTH_TOKEN").v))
           ELSE IF Truthy(Secret("BASIC_USERNAME")) /\ Truthy(Secret("BASIC_PASSWORD"))
           THEN /\ TokenRequests = {}
                /\ auth = Str("Basic " \o Btoa(Secret("BASIC_USERNAME").v \o ":"
                                               \o Secret("BASIC_PASSWORD").v))
           ELSE IF Truthy(Secret("OAUTH2_AUTHORIZATION_CODE_ACCESS_TOKEN"))
           THEN /\ TokenRequests = {}
                /\ auth = Str(AsBearer(Secret("OAUTH2_AUTHORIZATION_CODE_ACCESS_TOKEN").v))
           ELSE IF Truthy(Secret("OAUTH2_CLIENT_CREDENTIALS_CLIENT_SECRET"))
           THEN IF Truthy(EnvVar("OAUTH2_CLIENT_CREDENTIALS_TOKEN_URL"))
                   /\ Truthy(EnvVar("OAUTH2_CLIENT_CREDENTIALS_CLIENT_ID"))
                THEN Cardinality(TokenRequests) = 1
                ELSE TokenRequests = {} /\ PrimaryRequests = {}
           ELSE TokenRequests = {} /\ auth = Undef

\* All secrets are present, with the token URL and client id, and the primary
\* request carries the bearer token.
C4_Witness ==
    /\ pc = "primary_wait"
    /\ variant = "strict"
    /\ params.requestHeaders = Undef
    /\ Secret("BEARER_AUTH_TOKEN") = Str("tok-0")
    /\ Truthy(Secret("BASIC_USERNAME")) /\ Truthy(Secret("BASIC_PASSWORD"))
    /\ Truthy(Secret("OAUTH2_AUTHORIZATION_CODE_ACCESS_TOKEN"))
    /\ Truthy(Secret("OAUTH2_CLIENT_CREDENTIALS_CLIENT_SECRET"))
    /\ Truthy(EnvVar("OAUTH2_CLIENT_CREDENTIALS_TOKEN_URL"))
    /\ Prop(requests[1].headers, "Authorization") = Str("Bearer tok-0")

-----------------------------------------------------------------------------
(* C5 *)

\* C5, for the strict build and a non-empty value: when the caller's
\* requestHeaders carry an Authorization key in any letter casing, no token
\* request is issued and the only Authorization headers of the primary
\* request, in any letter casing, are the caller's, with the caller's values.
C5_CallerAuthorizationWins ==
    (/\ Called /\ variant = "strict" /\ HeadersAreMapping
     /\ \E k \in CallerAuthKeys : Truthy(Get(CallerMapping, k))) =>
        /\ TokenRequests = {}
        /\ \A i \in PrimaryRequests :
             LET h == requests[i].headers.v
             IN \A j \in 1..Len(h) :
                  ToLowerCase(h[j][1]) = "authorization" =>
                      /\ h[j][1] \in CallerAuthKeys
                      /\ h[j][2] = Get(CallerMapping, h[j][1])

-----------------------------------------------------------------------------
(* C6 *)

IsUpperCase(s) == \A i \in 1..Len(s) : ~Includes(LowerAlpha, SubSeq(s, i, i))

\* C6: the method of the primary request is params.method in upper case, and
\* the request has a body only if that method is POST, PUT, PATCH or DELETE.
C6_MethodAndBody ==
    \A i \in PrimaryRequests :
        /\ IsUpperCase(requests[i].method)
        /\ ToLowerCase(requests[i].method) = ToLowerCase(params.method.v)
        /\ requests[i].body # Undef =>
               requests[i].method \in {"POST", "PUT", "PATCH", "DELETE"}

\* A 'get' with a requestBody went out as GET without body.
C6_Witness ==
    /\ pc = "primary_wait"
    /\ params.method = Str("get")
    /\ params.requestBody = BodyText
    /\ requests[1].method = "GET"
    /\ requests[1].body = Undef

-----------------------------------------------------------------------------
(* C7 *)

ResponseRead == response.read \in {"ok", "failed"}
Is2xx(status) == 200 <= status /\ status < 300

\* C7: for accepted status codes that are a sequence of integers, the result
\* of makeWebhookRequest has success = true exactly when the status is in
\* [200,300) or in the sequence, and statusCode is the response status.  The
\* lenient and legacy builds return the result; the strict build returns it
\* when success is true and throws when it is false.
C7_SuccessIff ==
    (ResponseRead /\ IsArr(loc.codes)) =>
        LET expected == \/ Is2xx(response.status)
                        \/ \E i \in 1..Len(loc.codes.v) :
                             loc.codes.v[i] = Num(response.status)
        IN IF variant = "strict" /\ ~expected
           THEN outcome.kind = "threw"
           ELSE /\ outcome.kind = "returned"
                /\ outcome.data.success = Bool(expected)
                /\ outcome.data.statusCode = response.status

\* A 404 that the caller accepts is a success.
C7_Witness ==
    /\ outcome.kind = "returned"
    /\ response.status = 404
    /\ loc.codes = Arr(<<Num(404), Num(500)>>)
    /\ outcome.data.success = Bool(TRUE)
    /\ outcome.data.statusCode = 404

-----------------------------------------------------------------------------
(* C8 *)

\* The status codes the caller accepts: those of the sequence supplied, as an
\* array or as its JSON text
AcceptedCodes ==
    LET a == params.acceptedStatusCodes
        seq == IF IsArr(a) THEN a.v
               ELSE IF IsStr(a) /\ Truthy(a) /\ JSONParses(a.v) /\ IsArr(JSONParse(a.v))
                    THEN JSONParse(a.v).v
                    ELSE <<>>
    IN {seq[i].v : i \in 1..Len(seq)}

NotASuccess ==
    ResponseRead /\ ~Is2xx(response.status) /\ response.status \notin AcceptedCodes

\* C8: in the strict build, when the status of the primary response is neither
\* in [200,300) nor accepted, invoke throws 'Request failed with status code:
\* <code>. Response body: <body>.' with the status and body of the response.
C8_StrictRejects ==
    (variant = "strict" /\ NotASuccess) =>
        ThrewMessage("Request failed with status code: " \o NumToStr(response.status)
                     \o ". Response body: " \o response.body \o ".")

-----------------------------------------------------------------------------
(* C9 *)

\* C9: in the lenient and legacy builds, once the primary response is read
\* invoke returns {status: 'success', data}, with data.success false for a
\* status that is neither in [200,300) nor accepted.
C9_LenientReturns ==
    (variant # "strict" /\ ResponseRead) =>
        /\ outcome.kind = "returned"
        /\ outcome.status = "success"
        /\ NotASuccess => outcome.data.success = Bool(FALSE)

-----------------------------------------------------------------------------
(* C10 *)

MessageHas(k) == IsStr(outcome.message) /\ Includes(outcome.message.v, k)

-----------------------------------------------------------------------------
(* C11 *)

HasFatalMarker ==
    \E k \in {"is required", "Failed to parse", "No URL specified"} : MessageHas(k)
Rethrown == reply.threw /\ reply.message = outcome.message
                        /\ reply.status # "retry_requested"

\* C11: for every error whose message contains 'is required', 'Failed to
\* parse' or 'No URL specified', the error handler rethrows that error
\* unchanged and does not return retry_requested.
C11_FatalRethrown ==
    (reply.handler = "error" /\ HasFatalMarker) => Rethrown

-----------------------------------------------------------------------------
(* C12 *)

\* invoke threw from validation, URL resolution, the parse of the headers or
\* of the accepted status codes, or a client-credentials configuration
\* without token URL or client id
ThrewConfigError ==
    \/ ThrewMessage("method is required")
    \/ ThrewStarting("No URL specified")
    \/ ThrewStarting("addressSuffix provided but no base address available")
    \/ ThrewStarting("Failed to parse requestHeaders")
    \/ ThrewStarting("Failed to parse acceptedStatusCodes")
    \/ ThrewMessage("OAuth2 Client Credentials flow requires TOKEN_URL and CLIENT_ID in env")

\* C12: every validation, URL, parse or client-credentials configuration
\* error the strict build's invoke throws is rethrown by the error handler, so
\* that the invocation is not retried.
C12_ConfigErrorsFatal ==
    (variant = "strict" /\ reply.handler = "error" /\ ThrewConfigError) => Rethrown

-----------------------------------------------------------------------------
(* C13 *)

\* C13: the error handler returns retry_requested for the error of the strict
\* build 'Request failed with status code: <code>. Response body: <body>.',
\* whatever the status and the body text.
C13_HTTPFailureRetryable ==
    (reply.handler = "error" /\ ThrewStarting("Request failed with status code: ")) =>
        reply.status = "retry_requested" /\ ~reply.threw

-----------------------------------------------------------------------------
(* C14 *)

\* C14: the error the strict build's invoke throws for an addressSuffix
\* without params.address and without environment address is rethrown by the
\* error handler, which does not return retry_requested.
C14_SuffixWithoutBaseFatal ==
    (/\ variant = "strict" /\ reply.handler = "error"
     /\ Truthy(params.method) /\ Truthy(params.addressSuffix)
     /\ ~Truthy(params.address) /\ ~Truthy(EnvAddress)) => Rethrown

-----------------------------------------------------------------------------
(* C15 *)

\* C15: invoke with a method and an addressSuffix, without params.address and
\* without environment address, throws an error whose message contains
\* 'No URL specified'.
C15_SuffixWithoutBaseMessage ==
    (/\ Called
     /\ Truthy(params.method) /\ Truthy(params.addressSuffix)
     /\ ~Truthy(params.address) /\ ~Truthy(EnvAddress)) =>
        outcome.kind = "threw" /\ MessageHas("No URL specified")

-----------------------------------------------------------------------------
(* C16 *)

\* The auth step of the strict or lenient build ran: invoke got as far, and
\* the caller's headers are a mapping without Authorization key
AuthStepRan ==
    /\ Called /\ variant # "legacy" /\ Truthy(params.method) /\ IsStr(loc.url)
    /\ HeadersAreMapping /\ CallerAuthKeys = {}

NoSecretSet ==
    /\ ~Truthy(Secret("BEARER_AUTH_TOKEN"))
    /\ ~(Truthy(Secret("BASIC_USERNAME")) /\ Truthy(Secret("BASIC_PASSWORD")))
    /\ ~Truthy(Secret("OAUTH2_AUTHORIZATION_CODE_ACCESS_TOKEN"))
    /\ ~Truthy(Secret("OAUTH2_CLIENT_CREDENTIALS_CLIENT_SECRET"))

\* No header of the request is an Authorization header, in any letter casing
NoAuthorizationHeader(req) ==
    \A j \in 1..Len(req.headers.v) :
        ToLowerCase(req.headers.v[j][1]) # "authorization"

\* C16: without Authorization header from the caller and without any of the
\* four secret sets, invoke does not fail for the missing authentication and
\* dispatches the primary request without Authorization header; with a secret
\* set whose resolution fails (token URL or client id missing, token request
\* failed, token response without access_token), invoke throws and the primary
\* request is not dispatched.
C16_AuthOptional ==
    AuthStepRan =>
        /\ NoSecretSet =>
             /\ TokenRequests = {}
             /\ ~MessageHas("No authentication configured")
             /\ \/ PrimaryRequests # {}
                \/ ThrewStarting("Failed to parse acceptedStatusCodes")
             /\ \A i \in PrimaryRequests : NoAuthorizationHeader(requests[i])
        /\ (/\ ~NoSecretSet /\ pc # "token_wait"
            /\ Prop(loc.headers, "Authorization") = Undef) =>
             outcome.kind = "threw" /\ PrimaryRequests = {}

-----------------------------------------------------------------------------
(* C17 *)

\* The caller's keys that spell Content-Type in some letter casing, and the
\* Content-Type keys of a request
CallerContentTypeKeys ==
    {k \in Keys(CallerMapping) : ToLowerCase(k) = "content-type"}
ContentTypeKeys(req) ==
    {k \in Keys(req.headers.v) : ToLowerCase(k) = "content-type"}

\* C17: the primary request gets 'Content-Type: application/json' exactly when
\* it has a body and the caller's headers have no Content-Type key in any
\* letter casing; a Content-Type of the caller, in any letter casing, is
\* dispatched with its value and is the only Content-Type key of the request.
C17_ContentType ==
    HeadersAreMapping =>
        \A i \in PrimaryRequests :
            LET req == requests[i]
            IN IF CallerContentTypeKeys # {}
               THEN /\ ContentTypeKeys(req) = CallerContentTypeKeys
                    /\ \A k \in CallerContentTypeKeys :
                         Get(req.headers.v, k) = Get(CallerMapping, k)
               ELSE IF req.body # Undef
                    THEN /\ ContentTypeKeys(req) = {"Content-Type"}
                         /\ Get(req.headers.v, "Content-Type") = Str("application/json")
                    ELSE ContentTypeKeys(req) = {}

-----------------------------------------------------------------------------
(* C18 *)

\* requestHeaders is a non-empty string that is not the JSON text of an object
HeadersTextNotObject ==
    /\ IsStr(params.requestHeaders) /\ Truthy(params.requestHeaders)
    /\ ~(/\ JSONParses(params.requestHeaders.v)
         /\ IsObj(JSONParse(params.requestHeaders.v)))

\* C18: when requestHeaders is a string that is not the JSON text of an
\* object (no JSON at all, or the JSON text of an array, a number, a string,
\* a boolean or null) and invoke got past the method and the URL, invoke
\* throws an error whose message starts with 'Failed to parse requestHeaders'
\* and no request is issued.
C18_HeadersMustBeObject ==
    (Called /\ Truthy(params.method) /\ IsStr(loc.url) /\ HeadersTextNotObject) =>
        /\ ThrewStarting("Failed to parse requestHeaders")
        /\ requests = <<>>

-----------------------------------------------------------------------------
(* C19 *)

\* C19: when requestHeaders is supplied to the strict build as a structured
\* mapping, the caller's object keeps exactly the keys and values it was
\* supplied with, through invoke and after it.
C19_CallerMappingUnchanged ==
    (Called /\ variant = "strict" /\ IsObj(params.requestHeaders)) =>
        callerObj = params.requestHeaders

-----------------------------------------------------------------------------
(* C20 *)

IsIntegerSequence(x) ==
    IsArr(x) /\ \A i \in 1..Len(x.v) : x.v[i].t = "number"

\* acceptedStatusCodes is a non-empty string that is not the JSON text of a
\* sequence of integers
CodesTextNotSequence ==
    /\ IsStr(params.acceptedStatusCodes) /\ Truthy(params.acceptedStatusCodes)
    /\ ~(/\ JSONParses(params.acceptedStatusCodes.v)
         /\ IsIntegerSequence(JSONParse(params.acceptedStatusCodes.v)))

\* invoke got as far as the accepted status codes: method, URL and headers are
\* in order and the auth step issued no token request
ReachedCodes ==
    /\ Called /\ Truthy(params.method) /\ IsStr(loc.url) /\ HeadersAreMapping
    /\ TokenRequests = {}
    /\ ~Truthy(Secret("OAUTH2_CLIENT_CREDENTIALS_CLIENT_SECRET"))

\* C20: for a string acceptedStatusCodes that is not the JSON text of a
\* sequence of integers invoke throws an error whose message starts with
\* 'Failed to parse acceptedStatusCodes'; the primary request is dispatched,
\* and success computed, only with a sequence of integers, which is empty when
\* acceptedStatusCodes is absent.
C20_CodesMustBeSequence ==
    /\ (ReachedCodes /\ CodesTextNotSequence) =>
           ThrewStarting("Failed to parse acceptedStatusCodes")
    /\ (Called /\ PrimaryRequests # {}) =>
           /\ IsIntegerSequence(loc.codes)
           /\ params.acceptedStatusCodes = Undef => loc.codes = Arr(<<>>)

-----------------------------------------------------------------------------
(* C21 *)

\* C21: when the read of the primary response body fails, the failure is not
\* propagated: for accepted status codes that are a sequence of integers, the
\* result has body '' and the statusCode and success that the status gives.
\* The lenient and legacy builds return it; the strict build returns it when
\* success is true and throws the status failure, with an empty body text,
\* when it is false.
C21_ReadFailureNotPropagated ==
    (ResponseRead /\ response.read = "failed" /\ IsIntegerSequence(loc.codes)) =>
        LET expected == \/ Is2xx(response.status)
                        \/ \E i \in 1..Len(loc.codes.v) :
                             loc.codes.v[i] = Num(response.status)
        IN IF variant = "strict" /\ ~expected
           THEN ThrewMessage("Request failed with status code: "
                             \o NumToStr(response.status) \o ". Response body: .")
           ELSE /\ outcome.kind = "returned"
                /\ outcome.data.body = ""
                /\ outcome.data.statusCode = response.status
                /\ outcome.data.success = Bool(expected)

\* A 204 whose body read failed was returned as a success with body ''.
C21_Witness ==
    /\ pc = "returned"
    /\ response.read = "failed"
    /\ response.status = 204
    /\ outcome.data.body = ""
    /\ outcome.data.success = Bool(TRUE)

-----------------------------------------------------------------------------
(* C22 *)

\* The access token that the text of a token response holds, '' when none
TokenOf(text) ==
    IF JSONParses(text) /\ IsObj(JSONParse(text))
       /\ Truthy(Prop(JSONParse(text), "access_token"))
    THEN Prop(JSONParse(text), "access_token").v
    ELSE ""

\* C22: an invocation issues at most one token request and at most one
\* primary request; the primary request is not issued while the token request
\* is in flight, and when both are issued the token request came first, the
\* token response had a success status and an access token, and the
\* Authorization header of the primary request is 'Bearer ' and that token.
C22_OneTokenThenOnePrimary ==
    /\ Cardinality(TokenRequests) <= 1
    /\ Cardinality(PrimaryRequests) <= 1
    /\ pc = "token_wait" => PrimaryRequests = {}
    /\ (TokenRequests # {} /\ PrimaryRequests # {}) =>
         /\ \A i \in TokenRequests, j \in PrimaryRequests : i < j
         /\ tokenResponse.received
         /\ Is2xx(tokenResponse.status)
         /\ TokenOf(tokenResponse.text) # ""
         /\ \A j \in PrimaryRequests :
              Prop(requests[j].headers, "Authorization")
                = Str("Bearer " \o TokenOf(tokenResponse.text))

-----------------------------------------------------------------------------
(* C23 *)

\* The context selects the client-credentials method, configured in full
ClientCredentialsSelected ==
    /\ ~Truthy(Secret("BEARER_AUTH_TOKEN"))
    /\ ~(Truthy(Secret("BASIC_USERNAME")) /\ Truthy(Secret("BASIC_PASSWORD")))
    /\ ~Truthy(Secret("OAUTH2_AUTHORIZATION_CODE_ACCESS_TOKEN"))
    /\ Truthy(Secret("OAUTH2_CLIENT_CREDENTIALS_CLIENT_SECRET"))
    /\ Truthy(EnvVar("OAUTH2_CLIENT_CREDENTIALS_TOKEN_URL"))
    /\ Truthy(EnvVar("OAUTH2_CLIENT_CREDENTIALS_CLIENT_ID"))

-----------------------------------------------------------------------------
(* C24 *)

\* The requestHeaders mapping of the pair, as the caller supplied it to the
\* first invocation, holds no Authorization key in any letter casing
SuppliedWithoutAuthorization ==
    \/ earlier.supplied = Undef
    \/ \A k \in Keys(earlier.supplied.v) : ToLowerCase(k) # "authorization"

\* C24, for the strict build: the request of the second invocation of a pair
\* depends on the second's params and context as the caller supplied them
\* only: when the second
\* context holds none of the secret sets and the caller's requestHeaders
\* mapping was supplied without Authorization key, the primary request of
\* the second invocation has no Authorization header, also when the caller
\* passes the same mapping object to both invocations.
C24_InvocationsIndependent ==
    (/\ Called /\ variant = "strict" /\ earlier.n = 1
     /\ NoSecretSet /\ SuppliedWithoutAuthorization) =>
        \A j \in PrimaryRequests : NoAuthorizationHeader(requests[j])

-----------------------------------------------------------------------------
(* C25 *)

\* C25: every envelope invoke returns has one executedAt, taken after the
\* primary response body was read or its read failed, and so between the call
\* of invoke and its return; an invocation that fails produces no timestamp.
C25_ExecutedAt ==
    IF outcome.kind = "returned"
    THEN /\ ResponseRead
         /\ response.at < outcome.data.executedAt
         /\ 1 <= outcome.data.executedAt
         /\ outcome.data.executedAt <= now
    ELSE outcome.data = Undef

\* An envelope was returned after a failed body read, stamped after the
\* response had arrived.
C25_Witness ==
    /\ pc = "returned"
    /\ response.read = "failed"
    /\ response.at = 2
    /\ outcome.data.executedAt = 3

-----------------------------------------------------------------------------
(* C26 *)

\* C26: halt returns the mapping {status: 'halted'} and raises nothing, and
\* the step in which it runs issues no request and changes nothing else: the
\* requests sent, the outcome of the invocation, the caller's mapping, the
\* parameters and the context stay as they were.
C26_HaltReturnsHalted ==
    /\ [](pc = "halted" =>
            reply = [handler |-> "halt", status |-> "halted",
                     threw |-> FALSE, message |-> Undef])
    /\ [][pc' = "halted" =>
            UNCHANGED <<variant, params, context, callerObj, loc, requests,
                        response, outcome, tokenResponse, earlier>>]_vars

\* halt ran after an invocation that had sent its request and failed.
C26_Witness ==
    /\ pc = "halted"
    /\ reply.status = "halted"
    /\ outcome.kind = "threw"
    /\ PrimaryRequests # {}

-----------------------------------------------------------------------------
(* C27 *)

\* C27: an invocation that fails with a 'Failed to parse requestHeaders' or a
\* 'Failed to parse acceptedStatusCodes' message has issued no request at all,
\* neither a token request nor the primary one.
C27_ParseFailureBeforeRequests ==
    (/\ Called
     /\ variant = "strict"
     /\ \/ ThrewStarting("Failed to parse requestHeaders")
        \/ ThrewStarting("Failed to parse acceptedStatusCodes")) =>
        requests = <<>>

-----------------------------------------------------------------------------
(* C28 *)

\* C28: whenever the token endpoint answers with a status outside 200..299,
\* getClientCredentialsToken fails with a message that starts with
\* 'OAuth2 token request failed: ' and ends with the response body: the
\* re-serialised JSON when the body parses, the raw text when it does not.
C28_TokenFailureCarriesBody ==
    (/\ variant = "strict"
     /\ tokenResponse.received
     /\ ~Is2xx(tokenResponse.status)) =>
        /\ tokenResponse.threw
        /\ IsStr(tokenResponse.message)
        /\ StartsWith(tokenResponse.message.v, "OAuth2 token request failed: ")
        /\ EndsWith(tokenResponse.message.v,
                    IF JSONParses(tokenResponse.text)
                    THEN JSONStringify(JSONParse(tokenResponse.text))
                    ELSE tokenResponse.text)

-----------------------------------------------------------------------------
(* C29 *)

AuthStyle == EnvVar("OAUTH2_CLIENT_CREDENTIALS_AUTH_STYLE")
ClientId == EnvVar("OAUTH2_CLIENT_CREDENTIALS_CLIENT_ID")
ClientSecret == Secret("OAUTH2_CLIENT_CREDENTIALS_CLIENT_SECRET")
AuthorizationKeys(req) ==
    {j \in 1..Len(req.headers.v) :
        ToLowerCase(req.headers.v[j][1]) = "authorization"}

\* C29: a token request carries the client credentials in one place.  With
\* authStyle 'InParams' its form body holds client_id and client_secret and it
\* has no Authorization header; with any other authStyle, absent included, it
\* has the one header Authorization: Basic base64(clientId:clientSecret) and
\* its body holds neither field.  The body always holds
\* grant_type=client_credentials, and scope and audience exactly when they
\* are configured.
C29_CredentialsInOnePlace ==
    \A i \in TokenRequests :
        LET req == requests[i]
            body == req.body.v
        IN /\ Includes(body, "grant_type=client_credentials")
           /\ IF AuthStyle = Str("InParams")
              THEN /\ Includes(body, "client_id=" \o ClientId.v)
                   /\ Includes(body, "client_secret=" \o ClientSecret.v)
                   /\ AuthorizationKeys(req) = {}
              ELSE /\ Cardinality(AuthorizationKeys(req)) = 1
                   /\ Prop(req.headers, "Authorization")
                        = Str("Basic " \o Btoa(ClientId.v \o ":" \o ClientSecret.v))
                   /\ ~Includes(body, "client_id")
                   /\ ~Includes(body, "client_secret")
           /\ Includes(body, "scope=") <=> Truthy(EnvVar("OAUTH2_CLIENT_CREDENTIALS_SCOPE"))
           /\ Includes(body, "audience=")
                <=> Truthy(EnvVar("OAUTH2_CLIENT_CREDENTIALS_AUDIENCE"))

\* A token request was sent with authStyle 'InParams', a scope and an
\* audience: all five fields in the body and no Authorization header.
C29_Witness ==
    /\ TokenRequests # {}
    /\ AuthStyle = Str("InParams")
    /\ \E i \in TokenRequests :
         /\ requests[i].body.v
              = "grant_type=client_credentials&scope=read&audience=api&client_id=client-1&client_secret=s3cret"
         /\ NoAuthorizationHeader(requests[i])

-----------------------------------------------------------------------------
(* C30 *)

Finished == pc \in {"returned", "failed", "classified", "halted"}

\* C30: in the strict build every envelope invoke returns has status
\* 'success' and data.success true, never false; and an invocation that has
\* issued its primary request and finished has either returned such an
\* envelope, with no error, or raised an error, with no envelope.
C30_StrictEnvelope ==
    variant = "strict" =>
        /\ outcome.kind = "returned" =>
             /\ outcome.status = "success"
             /\ outcome.data.success = Bool(TRUE)
             /\ outcome.message = Undef
        /\ outcome.kind = "threw" => outcome.data = Undef /\ outcome.status = ""
        /\ (PrimaryRequests # {} /\ Finished) =>
             outcome.kind \in {"returned", "threw"}
        /\ pc = "returned" => outcome.kind = "returned"
        /\ pc = "failed" => outcome.kind = "threw"

\* The strict build returned an envelope for a 404 the caller accepts.
C30_Witness ==
    /\ variant = "strict"
    /\ pc = "returned"
    /\ response.status = 404
    /\ outcome.status = "success"
    /\ outcome.data.success = Bool(TRUE)
    /\ PrimaryRequests # {}

====
